---- MODULE Spec2Model ----
(***************************************************************************)
(* A model of the taskade GraphQL backend (src/src/index.js): the Users    *)
(* and Tasks collections of the document store, the per-request context    *)
(* builder (token verification and user lookup) and the eight resolvers.   *)
(*                                                                         *)
(* Spec      every request runs to completion before the next one starts.  *)
(* SpecConc  the resolvers that make two store calls are split at the       *)
(*           await between the calls, and requests interleave there.       *)
(*                                                                         *)
(* Documents keep the fields the resolvers read or write: a user's name    *)
(* and avatar and a task list's createdAt are stored and never read back   *)
(* by any resolver, and are left out.  The field resolvers of User and     *)
(* TaskList (id, progress, users) change nothing and are not modelled; nor *)
(* is GraphQL's rejection of a null result for a non-null field: `last'    *)
(* holds what the resolver returned.                                       *)
(***************************************************************************)
EXTENDS Integers, Sequences, FiniteSets, Bags, TLC

\* Bounds of the model.
MaxUsers == 2
MaxTasks == 1
MaxMembers == 3
MaxInflight == 2

\* Request inputs.
Emails == {"a@x.com", "b@x.com"}
Passwords == {"pw", "wrong"}
Titles == {"Groceries", "Chores"}

\* The absent ObjectId (null / undefined where an id is expected).
NoId == 0

(***************************************************************************)
(* Identifiers.  An ObjectId is a 12-byte value, here a positive integer.  *)
(* Its string forms are the lower-case hex string that toString()          *)
(* produces, the same digits in upper case, which the ObjectId()           *)
(* constructor accepts as well, and strings the constructor rejects.       *)
(***************************************************************************)
Malformed == [oid |-> NoId, form |-> "malformed"]

IdStrings(oids) ==
  {[oid |-> o, form |-> f] : o \in oids, f \in {"lower", "upper"}} \cup {Malformed}

\* ObjectId(s) throws on a string that is not 24 hex characters.
ObjectIdThrows(s) == s.form = "malformed"

\* ObjectId(s): parsing is case-insensitive, both forms give the same id.
ObjectId(s) == s.oid

\* oid.toString(): always the lower-case hex string.
toString(oid) == [oid |-> oid, form |-> "lower"]

(***************************************************************************)
(* bcryptjs.  hashSync draws a random 128-bit salt and hashes the password *)
(* with it; compareSync hashes the candidate with the salt stored in the   *)
(* hash and compares.  The salt of a call is a value no other call drew.   *)
(***************************************************************************)
hashSync(password, salt) == [salt |-> salt, digest |-> <<salt, password>>]

compareSync(password, hash) == hashSync(password, hash.salt) = hash

(***************************************************************************)
(* jsonwebtoken.  A token is absent, valid (signed with JWT_SECRET and     *)
(* not expired: only getToken makes these), or malformed, wrongly signed   *)
(* or expired.  jwt.verify returns the payload of a valid token and        *)
(* throws on the others.                                                   *)
(***************************************************************************)
BadTokenKinds == {"malformed", "badsig", "expired"}

getToken(userId) == [kind |-> "valid", id |-> userId]

jwtVerify(token) ==
  IF token.kind = "valid"
  THEN [threw |-> FALSE, id |-> token.id]
  ELSE [threw |-> TRUE, id |-> NoId]

VARIABLES
  Users,     \* the Users collection, in insertion (natural) order
  Tasks,     \* the Tasks collection, in insertion (natural) order
  nextOid,   \* the ObjectId the driver generates for the next insert
  creator,   \* history: task id -> id of the user whose createTaskList made it
  inflight,  \* SpecConc: the bag of resolvers suspended at an await
  last       \* the request that completed last, and its response

vars == <<Users, Tasks, nextOid, creator, inflight, last>>

store == <<Users, Tasks, nextOid, creator>>

\* bcrypt.genSaltSync(): a fresh salt.  Every hashSync call is followed by
\* an insert, so the id counter's value is one no earlier call has seen.
genSaltSync == nextOid

Range(s) == {s[i] : i \in 1..Len(s)}

\* The number of occurrences of x in the sequence s.
Count(s, x) == Cardinality({i \in 1..Len(s) : s[i] = x})

(***************************************************************************)
(* The document store: the collection calls the resolvers make.            *)
(***************************************************************************)
\* collection.findOne(filter) gives the first of the matching documents,
\* which are in natural order: a sequence of zero (null) or one document.
findOne(hits) == IF hits = <<>> THEN <<>> ELSE <<hits[1]>>

\* collection.findOne({ _id: id })
findOneById(coll, id) == findOne(SelectSeq(coll, LAMBDA d : d._id = id))

\* collection.findOne({ email })
findOneByEmail(coll, email) == findOne(SelectSeq(coll, LAMBDA d : d.email = email))

\* A faulty filter, { 'userIds.0': id }: it matches the first element of
\* the array only.
userIdsContains_First(doc, id) == doc.userIds # <<>> /\ doc.userIds[1] = id

\* The filter { userIds: id } on an array field: the array contains id.
userIdsContains(doc, id) == id \in Range(doc.userIds)

\* collection.find({ userIds: id }).toArray()
findByUserId(coll, id) == SelectSeq(coll, LAMBDA d : userIdsContains(d, id))

\* A faulty deleteOne({ _id: id }) given the id string instead of the
\* ObjectId: it matches no document.
deleteOne_NoMatch(coll, id) == coll

\* collection.deleteOne({ _id }): _id is unique, so at most one goes.
deleteOne(coll, id) == SelectSeq(coll, LAMBDA d : d._id # id)

\* The update { $set: { title } }
setTitle(doc, title) == [doc EXCEPT !.title = title]

\* A faulty update, { $set: { userIds: [id] } } in place of $push.
pushUserId_Set(doc, id) == [doc EXCEPT !.userIds = <<id>>]

\* The update { $push: { userIds: id } }
pushUserId(doc, id) == [doc EXCEPT !.userIds = Append(@, id)]

\* collection.findOneAndUpdate({ _id: id }, { $set: { title } }), its effect
\* on the collection: no document with the id, no change (no upsert).
updateOneSetTitle(coll, id, title) ==
  [i \in 1..Len(coll) |->
     IF coll[i]._id = id THEN setTitle(coll[i], title) ELSE coll[i]]

\* collection.updateOne({ _id: id }, { $push: { userIds: userId } })
updateOnePush(coll, id, userId) ==
  [i \in 1..Len(coll) |->
     IF coll[i]._id = id THEN pushUserId(coll[i], userId) ELSE coll[i]]

(***************************************************************************)
(* The context builder.                                                    *)
(***************************************************************************)
\* getUserFromToken: [threw, user], user being the _id of the user found,
\* or NoId for null.
getUserFromToken(token) ==
  IF token.kind = "absent" THEN [threw |-> FALSE, user |-> NoId]
  ELSE LET tokenData == jwtVerify(token) IN
       IF tokenData.threw THEN [threw |-> TRUE, user |-> NoId]
       ELSE IF tokenData.id = NoId THEN [threw |-> FALSE, user |-> NoId]
       ELSE LET found == findOneById(Users, tokenData.id) IN
            [threw |-> FALSE,
             user |-> IF found = <<>> THEN NoId ELSE found[1]._id]

\* The Authorization headers a client can send: none, a token the server
\* issued to a user, or a token that does not verify.
Headers ==
  {[kind |-> "absent", id |-> NoId]}
    \cup {getToken(Users[i]._id) : i \in 1..Len(Users)}
    \cup {[kind |-> k, id |-> NoId] : k \in BadTokenKinds}

(***************************************************************************)
(* Responses.  `last' is the request that completed last: the operation,   *)
(* the header's kind, the context's user, the arguments the resolver read, *)
(* and the outcome: err is the error message ("" for none), ret the        *)
(* documents returned (<<>> for null), flag a Boolean result.              *)
(***************************************************************************)
NoArgs ==
  [id |-> Malformed, userId |-> Malformed, title |-> "", email |-> "",
   password |-> ""]

Response(op, hdr, user, args, err, ret, flag) ==
  [op |-> op, hdr |-> hdr.kind, user |-> user, args |-> args, err |-> err,
   ret |-> ret, flag |-> flag]

AuthError == "Authentication error"
CredError == "Invalid credentials"
ContextError == "Context creation failed"
IdError == "Argument passed in must be a string of 24 hex characters"

Protected ==
  {"myTaskLists", "getTaskList", "createTaskList", "updateTaskList",
   "deleteTaskList", "addUserToTaskList"}

OnTaskList ==
  {"getTaskList", "updateTaskList", "deleteTaskList", "addUserToTaskList"}

\* A request whose resolver returned without an error.
Succeeded(r) == r.op # "" /\ r.err = ""

\* The context function threw: Apollo answers with the error and runs no
\* resolver.
ContextFailed(op, hdr) ==
  /\ last' = Response(op, hdr, NoId, NoArgs, ContextError, <<>>, FALSE)
  /\ UNCHANGED <<store, inflight>>

\* A resolver threw before its first store call.
Throws(op, hdr, user, args, err) ==
  /\ last' = Response(op, hdr, user, args, err, <<>>, FALSE)
  /\ UNCHANGED <<store, inflight>>

\* The context function: [threw, user].
context(hdr) == getUserFromToken(hdr)

(***************************************************************************)
(* Query resolvers.                                                        *)
(***************************************************************************)
myTaskLists(hdr, user) ==
  IF user = NoId THEN Throws("myTaskLists", hdr, user, NoArgs, AuthError)
  ELSE /\ last' = Response("myTaskLists", hdr, user, NoArgs, "",
                           findByUserId(Tasks, user),
                           FALSE)
       /\ UNCHANGED <<store, inflight>>

getTaskList(hdr, user, id) ==
  LET args == [NoArgs EXCEPT !.id = id] IN
  IF user = NoId THEN Throws("getTaskList", hdr, user, NoArgs, AuthError)
  ELSE IF ObjectIdThrows(id) THEN Throws("getTaskList", hdr, user, args, IdError)
  ELSE /\ last' = Response("getTaskList", hdr, user, args, "",
                           findOneById(Tasks, ObjectId(id)),
                           FALSE)
       /\ UNCHANGED <<store, inflight>>

(***************************************************************************)
(* Mutation resolvers.                                                     *)
(***************************************************************************)
\* signUp up to its insertOne: no check that the email is free.
signUpInsert(email, password) ==
  /\ Users' = Append(Users, [_id |-> nextOid, email |-> email,
                             password |-> hashSync(password, genSaltSync)])
  /\ nextOid' = nextOid + 1
  /\ UNCHANGED <<Tasks, creator>>

signUp(hdr, user, email, password) ==
  LET args == [NoArgs EXCEPT !.email = email, !.password = password] IN
  /\ signUpInsert(email, password)
  /\ last' = Response("signUp", hdr, user, args, "",
                      findOneById(Users', nextOid), FALSE)
  /\ UNCHANGED inflight

signIn(hdr, user, email, password) ==
  LET args == [NoArgs EXCEPT !.email = email, !.password = password]
      found == findOneByEmail(Users, email)
      isPasswordCorrect ==
        found # <<>> /\ compareSync(password, found[1].password)
  IN
  IF found = <<>> \/ ~isPasswordCorrect
  THEN Throws("signIn", hdr, user, args, CredError)
  ELSE /\ last' = Response("signIn", hdr, user, args, "", found, FALSE)
       /\ UNCHANGED <<store, inflight>>

\* createTaskList up to its insertOne.
createTaskListInsert(user, title) ==
  /\ Tasks' = Append(Tasks, [_id |-> nextOid, title |-> title,
                             userIds |-> <<user>>])
  /\ nextOid' = nextOid + 1
  /\ creator' = creator @@ (nextOid :> user)
  /\ UNCHANGED Users

createTaskList(hdr, user, title) ==
  LET args == [NoArgs EXCEPT !.title = title] IN
  IF user = NoId THEN Throws("createTaskList", hdr, user, NoArgs, AuthError)
  ELSE /\ createTaskListInsert(user, title)
       /\ last' = Response("createTaskList", hdr, user, args, "",
                           findOneById(Tasks', nextOid), FALSE)
       /\ UNCHANGED inflight

\* findOneAndUpdate without the returnOriginal / returnDocument option:
\* result.value is the document as it was before the update.
updateTaskList(hdr, user, id, title) ==
  LET args == [NoArgs EXCEPT !.id = id, !.title = title] IN
  IF user = NoId THEN Throws("updateTaskList", hdr, user, NoArgs, AuthError)
  ELSE IF ObjectIdThrows(id)
  THEN Throws("updateTaskList", hdr, user, args, IdError)
  ELSE /\ Tasks' = updateOneSetTitle(Tasks, ObjectId(id), title)
       /\ last' = Response("updateTaskList", hdr, user, args, "",
                           findOneById(Tasks, ObjectId(id)),
                           FALSE)
       /\ UNCHANGED <<Users, nextOid, creator, inflight>>

\* A faulty deleteTaskList, without the authentication check.
deleteTaskList_NoAuthCheck(hdr, user, id) ==
  LET args == [NoArgs EXCEPT !.id = id] IN
  IF ObjectIdThrows(id)
  THEN Throws("deleteTaskList", hdr, user, args, IdError)
  ELSE /\ Tasks' = deleteOne(Tasks, ObjectId(id))
       /\ last' = Response("deleteTaskList", hdr, user, args, "", <<>>, TRUE)
       /\ UNCHANGED <<Users, nextOid, creator, inflight>>

deleteTaskList(hdr, user, id) ==
  LET args == [NoArgs EXCEPT !.id = id] IN
  IF user = NoId THEN Throws("deleteTaskList", hdr, user, NoArgs, AuthError)
  ELSE IF ObjectIdThrows(id)
  THEN Throws("deleteTaskList", hdr, user, args, IdError)
  ELSE /\ Tasks' = deleteOne(Tasks, ObjectId(id))
       /\ last' = Response("deleteTaskList", hdr, user, args, "", <<>>, TRUE)
       /\ UNCHANGED <<Users, nextOid, creator, inflight>>

\* The membership test of addUserToTaskList: a comparison of strings,
\* dbId.toString() === userId.toString(), userId being a string already.
isMember(task, userId) ==
  \E i \in 1..Len(task.userIds) : toString(task.userIds[i]) = userId

\* updateOne({ _id }, { $push: { userIds: ObjectId(userId) } })
addUserUpdate(taskListId, userId) ==
  /\ Tasks' = updateOnePush(Tasks, ObjectId(taskListId), ObjectId(userId))
  /\ UNCHANGED <<Users, nextOid, creator>>

addUserToTaskList(hdr, user, taskListId, userId) ==
  LET args == [NoArgs EXCEPT !.id = taskListId, !.userId = userId]
      task == findOneById(Tasks, ObjectId(taskListId))
  IN
  IF user = NoId THEN Throws("addUserToTaskList", hdr, user, NoArgs, AuthError)
  ELSE IF ObjectIdThrows(taskListId)
  THEN Throws("addUserToTaskList", hdr, user, args, IdError)
  ELSE IF task = <<>> \/ isMember(task[1], userId)
  THEN /\ last' = Response("addUserToTaskList", hdr, user, args, "", task, FALSE)
       /\ UNCHANGED <<store, inflight>>
  ELSE IF ObjectIdThrows(userId)
  THEN Throws("addUserToTaskList", hdr, user, args, IdError)
  ELSE /\ Len(task[1].userIds) < MaxMembers
       /\ addUserUpdate(taskListId, userId)
       /\ last' = Response("addUserToTaskList", hdr, user, args, "",
                           <<pushUserId(task[1], ObjectId(userId))>>, FALSE)
       /\ UNCHANGED inflight

(***************************************************************************)
(* The requests of the sequential specification.                           *)
(***************************************************************************)
\* The ids the driver has generated so far, of users and of task lists.
Allocated == 1..(nextOid - 1)

UserOids == {Users[i]._id : i \in 1..Len(Users)}

TasksCreated == nextOid - 1 - Len(Users)

\* The id arguments of the requests.  A task-list id only ever goes through
\* ObjectId(), so it comes in its canonical form, or malformed; it is any id
\* generated so far, a task list's (stored or deleted) or not.  A userId is
\* also compared as a string, so it comes in every form.
TaskIdInputs == {toString(o) : o \in Allocated} \cup {Malformed}

UserIdInputs == IdStrings(UserOids)

\* Each request: the context function runs first; if it returns, the
\* resolver runs with the context's user and its arguments.
ReqMyTaskLists ==
  \E hdr \in Headers :
    IF context(hdr).threw THEN ContextFailed("myTaskLists", hdr)
    ELSE myTaskLists(hdr, context(hdr).user)

ReqGetTaskList ==
  \E hdr \in Headers :
    IF context(hdr).threw THEN ContextFailed("getTaskList", hdr)
    ELSE \E id \in TaskIdInputs : getTaskList(hdr, context(hdr).user, id)

ReqSignUp ==
  /\ Len(Users) < MaxUsers
  /\ \E hdr \in Headers :
       IF context(hdr).threw THEN ContextFailed("signUp", hdr)
       ELSE \E e \in Emails, p \in Passwords :
              signUp(hdr, context(hdr).user, e, p)

ReqSignIn ==
  \E hdr \in Headers :
    IF context(hdr).threw THEN ContextFailed("signIn", hdr)
    ELSE \E e \in Emails, p \in Passwords :
           signIn(hdr, context(hdr).user, e, p)

ReqCreateTaskList ==
  /\ TasksCreated < MaxTasks
  /\ \E hdr \in Headers :
       IF context(hdr).threw THEN ContextFailed("createTaskList", hdr)
       ELSE \E t \in Titles : createTaskList(hdr, context(hdr).user, t)

ReqUpdateTaskList ==
  \E hdr \in Headers :
    IF context(hdr).threw THEN ContextFailed("updateTaskList", hdr)
    ELSE \E id \in TaskIdInputs, t \in Titles :
           updateTaskList(hdr, context(hdr).user, id, t)

ReqDeleteTaskList ==
  \E hdr \in Headers :
    IF context(hdr).threw THEN ContextFailed("deleteTaskList", hdr)
    ELSE \E id \in TaskIdInputs : deleteTaskList(hdr, context(hdr).user, id)

ReqAddUserToTaskList ==
  \E hdr \in Headers :
    IF context(hdr).threw THEN ContextFailed("addUserToTaskList", hdr)
    ELSE \E id \in TaskIdInputs, userId \in UserIdInputs :
           addUserToTaskList(hdr, context(hdr).user, id, userId)

Init ==
  /\ Users = <<>>
  /\ Tasks = <<>>
  /\ nextOid = 1
  /\ creator = <<>>
  /\ inflight = EmptyBag
  /\ last = Response("", [kind |-> "absent"], NoId, NoArgs, "", <<>>, FALSE)

Next ==
  \/ ReqMyTaskLists
  \/ ReqGetTaskList
  \/ ReqSignUp
  \/ ReqSignIn
  \/ ReqCreateTaskList
  \/ ReqUpdateTaskList
  \/ ReqDeleteTaskList
  \/ ReqAddUserToTaskList

Spec == Init /\ [][Next]_vars

(***************************************************************************)
(* Concurrent requests.  Node runs a resolver without preemption from one  *)
(* await to the next, and other requests run while it waits.               *)
(* addUserToTaskList decides on the document its findOne returned and      *)
(* writes in a later step, its updateOne; the two are separate actions     *)
(* here.  The second store call of signUp and of createTaskList is a       *)
(* findOne that only fetches the response, and stays with the insert.      *)
(*                                                                         *)
(* This specification runs the requests that change the store.  Its        *)
(* sign-ups use one password and its userId arguments are canonical, so    *)
(* that a member list can only come to differ from the sequential one      *)
(* through interleaving.                                                   *)
(***************************************************************************)
ConcPasswords == {"pw"}

ConcUserIdInputs == {toString(o) : o \in UserOids} \cup {Malformed}

\* addUserToTaskList from its start to the await of updateOne: the resolver
\* is left suspended with the task its findOne returned.
addUserFind(hdr, user, taskListId, userId) ==
  LET args == [NoArgs EXCEPT !.id = taskListId, !.userId = userId]
      task == findOneById(Tasks, ObjectId(taskListId))
  IN
  IF user = NoId THEN Throws("addUserToTaskList", hdr, user, NoArgs, AuthError)
  ELSE IF ObjectIdThrows(taskListId)
  THEN Throws("addUserToTaskList", hdr, user, args, IdError)
  ELSE IF task = <<>> \/ isMember(task[1], userId)
  THEN /\ last' = Response("addUserToTaskList", hdr, user, args, "", task, FALSE)
       /\ UNCHANGED <<store, inflight>>
  ELSE IF ObjectIdThrows(userId)
  THEN Throws("addUserToTaskList", hdr, user, args, IdError)
  ELSE /\ Len(task[1].userIds) + BagCardinality(inflight) < MaxMembers
       /\ inflight' = inflight (+) SetToBag({[hdr |-> hdr, user |-> user,
                                              args |-> args, task |-> task[1]]})
       /\ UNCHANGED <<store, last>>

\* The rest of a suspended addUserToTaskList: updateOne completes, the
\* resolver pushes the id onto the task it read and returns that task.
addUserPush(r) ==
  /\ addUserUpdate(r.args.id, r.args.userId)
  /\ inflight' = inflight (-) SetToBag({r})
  /\ last' = Response("addUserToTaskList", r.hdr, r.user, r.args, "",
                      <<pushUserId(r.task, ObjectId(r.args.userId))>>, FALSE)

AddUserStart ==
  /\ BagCardinality(inflight) < MaxInflight
  /\ \E hdr \in Headers :
       IF context(hdr).threw THEN ContextFailed("addUserToTaskList", hdr)
       ELSE \E id \in TaskIdInputs, userId \in ConcUserIdInputs :
              addUserFind(hdr, context(hdr).user, id, userId)

AddUserFinish == \E r \in BagToSet(inflight) : addUserPush(r)

ConcSignUp ==
  /\ Len(Users) < MaxUsers
  /\ \E hdr \in Headers :
       IF context(hdr).threw THEN ContextFailed("signUp", hdr)
       ELSE \E e \in Emails, p \in ConcPasswords :
              signUp(hdr, context(hdr).user, e, p)

NextConc ==
  \/ ConcSignUp
  \/ ReqCreateTaskList
  \/ ReqUpdateTaskList
  \/ ReqDeleteTaskList
  \/ AddUserStart
  \/ AddUserFinish

SpecConc == Init /\ [][NextConc]_vars

(***************************************************************************)
(* Properties.                                                             *)
(***************************************************************************)
TaskIds == {Tasks[i]._id : i \in 1..Len(Tasks)}

\* The resolver of the last request was run (the context function returned).
ResolverRan(r) == r.op # "" /\ r.err # ContextError

\* The stored task list with this id, as a sequence of zero or one document.
Stored(coll, id) == SelectSeq(coll, LAMBDA d : d._id = id)

\* C1: a protected operation whose context has user = null fails with
\* 'Authentication error', and the step leaves the Users and Tasks
\* collections exactly as they were.
C1_AnonymousFailsFast ==
  [][(ResolverRan(last') /\ last'.op \in Protected /\ last'.user = NoId)
       => (last'.err = AuthError /\ Users' = Users /\ Tasks' = Tasks)]_vars

\* C1 witness: an anonymous deleteTaskList was refused while a task list
\* was stored.
C1_Witness ==
  /\ last.op = "deleteTaskList"
  /\ last.hdr = "absent"
  /\ last.user = NoId
  /\ last.err = AuthError
  /\ Len(Tasks) > 0

\* C2: a request whose token is malformed, wrongly signed or expired gets a
\* context with user = null and its resolver runs: signUp and signIn
\* execute, and only a resolver that requires authentication raises an
\* error.
C2_BadTokenIsAnonymous ==
  last.hdr \in BadTokenKinds =>
    /\ ResolverRan(last)
    /\ last.user = NoId
    /\ last.op \in Protected => last.err = AuthError
    /\ last.op = "signUp" => last.err = ""
    /\ last.op = "signIn" => last.err \in {"", CredError}

\* C3: every successful getTaskList, updateTaskList, deleteTaskList and
\* addUserToTaskList on a stored TaskList is performed by a user whose id
\* is in that TaskList's member list at the time of the call.
C3_OnlyMembersAccess ==
  [][(/\ Succeeded(last')
      /\ last'.op \in OnTaskList
      /\ ObjectId(last'.args.id) \in TaskIds)
       => \A i \in 1..Len(Tasks) :
            Tasks[i]._id = ObjectId(last'.args.id)
              => last'.user \in Range(Tasks[i].userIds)]_vars

\* The user document u was created by a signUp with password p.
SignedUpWith(u, p) == u.password = hashSync(p, u.password.salt)

\* C4: for every user created by signUp with email e and password p, after
\* any further operations, signIn with (e, p) succeeds and returns that
\* user, and signIn with (e, q), q different from p, fails with 'Invalid
\* credentials'.
C4_SignInMatchesSignUp ==
  (ResolverRan(last) /\ last.op = "signIn") =>
    \A i \in 1..Len(Users) :
      Users[i].email = last.args.email =>
        IF SignedUpWith(Users[i], last.args.password)
        THEN last.err = "" /\ last.ret = <<Users[i]>>
        ELSE last.err = CredError

\* C5: of two successive addUserToTaskList calls with the same
\* (taskListId, userId) on an existing TaskList, the second changes nothing
\* in the store, and the stored member list and the returned one hold that
\* user id exactly once.
C5_AddUserIdempotent ==
  [][(/\ last.op = "addUserToTaskList" /\ Succeeded(last) /\ last.ret # <<>>
      /\ last'.op = "addUserToTaskList" /\ Succeeded(last')
      /\ last'.args = last.args)
       => /\ Tasks' = Tasks
          /\ last'.ret # <<>>
          /\ Count(last'.ret[1].userIds, ObjectId(last'.args.userId)) = 1
          /\ \A i \in 1..Len(Tasks') :
               Tasks'[i]._id = ObjectId(last'.args.id)
                 => Count(Tasks'[i].userIds, ObjectId(last'.args.userId)) = 1]_vars

\* C6: an authenticated updateTaskList(id, title) on an existing TaskList
\* returns the TaskList with the new title.
C6_UpdateReturnsNewTitle ==
  (last.op = "updateTaskList" /\ Succeeded(last) /\ last.ret # <<>>)
    => last.ret[1].title = last.args.title

C8_CreatorIsMember ==
  /\ \A i \in 1..Len(Tasks) :
       /\ Len(Tasks[i].userIds) > 0
       /\ Tasks[i]._id \in DOMAIN creator
       /\ creator[Tasks[i]._id] \in Range(Tasks[i].userIds)
  /\ (last.op = "createTaskList" /\ Succeeded(last))
       => /\ Len(last.ret) = 1
          /\ last.ret[1].userIds = <<last.user>>
          /\ Stored(Tasks, last.ret[1]._id) = last.ret
          /\ creator[last.ret[1]._id] = last.user

\* C8 witness: a stored task list has had a member added by
\* addUserToTaskList, and its creator is not its last member.
C8_Witness ==
  /\ last.op = "addUserToTaskList"
  /\ Succeeded(last)
  /\ \E i \in 1..Len(Tasks) :
       /\ Len(Tasks[i].userIds) > 1
       /\ Tasks[i].userIds[Len(Tasks[i].userIds)] # creator[Tasks[i]._id]

\* C9: myTaskLists returns exactly the stored TaskLists whose member list
\* contains the requesting user's id, in store order.
C9_MyTaskListsExact ==
  (last.op = "myTaskLists" /\ Succeeded(last)) =>
    /\ Range(last.ret) \subseteq Range(Tasks)
    /\ \A i \in 1..Len(Tasks) :
         Tasks[i] \in Range(last.ret) <=> last.user \in Range(Tasks[i].userIds)
    /\ \A i \in 1..Len(last.ret) : Count(last.ret, last.ret[i]) = 1

\* C9 witness: myTaskLists has returned a task list to a member who is not
\* the list's first member.
C9_Witness ==
  /\ last.op = "myTaskLists"
  /\ Succeeded(last)
  /\ Len(last.ret) > 0
  /\ last.ret[1].userIds[1] # last.user

\* C10: under any interleaving of concurrent requests, no stored TaskList's
\* member list contains the same user id more than once.
C10_NoDuplicateMembers ==
  \A i \in 1..Len(Tasks) :
    \A o \in Range(Tasks[i].userIds) : Count(Tasks[i].userIds, o) = 1

====
